---- MODULE Spec2Model ----
(***************************************************************************)
(* Model of pytest_cassandra.py: the CCMCluster controller (setup,         *)
(* teardown, the state check, cluster creation and removal), the platform  *)
(* adapters, the loopback discovery and the process finder.                *)
(*                                                                         *)
(* Python strings are sequences of one-character strings, so formatting    *)
(* and substring search are computed rather than assumed.  A shell command *)
(* is the sequence of its words.  Every external command (ifconfig, ccm,   *)
(* the process table) is the environment: its exit code and its effect on  *)
(* the host are inputs drawn with \E.                                      *)
(***************************************************************************)
EXTENDS Integers, Sequences, FiniteSets, TLC

VARIABLES
    initialized,        \* self.initialized
    name,               \* self.name
    nodes,              \* self.nodes
    manage_interfaces,  \* self.manage_interfaces
    killall,            \* self.killall
    ip_prefix,          \* self.ip_prefix
    platform,           \* sys.platform, selects the adapter
    host,               \* (interface, address) bindings on the host
    procs,              \* pids of the running processes of the host
    pc,                 \* "idle", or "polling" inside _remove_cluster's loop
    call,               \* record of the last setup / teardown call
    creates,            \* number of 'ccm create' commands run so far
    torn,               \* a teardown of an initialized controller returned
    hosts               \* last value read from the hosts_cfg property

vars == <<initialized, name, nodes, manage_interfaces, killall, ip_prefix,
          platform, host, procs, pc, call, creates, torn, hosts>>

----------------------------------------------------------------------------
(* Bounds of the model *)

\* largest node count of a controller
MaxNodes == 3
\* largest exit code of the 'ccm create' subprocess
MaxExit == 2
\* largest node count for which hosts_cfg is read
MaxHostNodes == 11

(* Program constants *)

NUM_NODES == 3
CCM_KILLALL == FALSE
IP_PREFIX == <<"1", "2", "7", ".", "0", ".", "5", ".">>

DaemonClass == <<"o", "r", "g", ".", "a", "p", "a", "c", "h", "e", ".", "c", "a", "s", "s", "a", "n", "d", "r", "a", ".", "s", "e", "r", "v", "i", "c", "e", ".", "C", "a", "s", "s", "a", "n", "d", "r", "a", "D", "a", "e", "m", "o", "n">>

----------------------------------------------------------------------------
(* Strings *)

Digit == <<"0", "1", "2", "3", "4", "5", "6", "7", "8", "9">>

RECURSIVE Str(_)
\* '{}'.format(n) for an integer n >= 0: its decimal digits
Str(n) == IF n < 10 THEN <<Digit[n + 1]>>
          ELSE Str(n \div 10) \o <<Digit[(n % 10) + 1]>>

\* s.startswith(p)
StartsWith(s, p) == Len(s) >= Len(p) /\ SubSeq(s, 1, Len(p)) = p

\* s.find(t) != -1
Contains(s, t) ==
    \E i \in 0..(Len(s) - Len(t)) : SubSeq(s, i + 1, i + Len(t)) = t

RECURSIVE Join(_, _)
\* sep.join(list)
Join(list, sep) ==
    IF list = <<>> THEN <<>>
    ELSE IF Len(list) = 1 THEN list[1]
    ELSE list[1] \o sep \o Join(Tail(list), sep)


----------------------------------------------------------------------------
(* Platform adapters: CCMPlatformDarwin and CCMPlatformLinux *)

Platforms == {"darwin", "linux"}

\* the lo_prefix default of each adapter's constructor
lo_prefix(plat) == IF plat = "darwin" THEN <<"l", "o", "0">> ELSE <<"l", "o", ":", "a", "u", "t", "h", "_", "t", "e", "s", "t">>

_mkiface(plat, node) ==
    IF plat = "darwin" THEN lo_prefix(plat) ELSE lo_prefix(plat) \o Str(node)

\* the command, as the sequence of its words
_add_ip_cmd(plat, iface, ip_addr) ==
    IF plat = "darwin"
    THEN <<"sudo", "ifconfig", iface, "alias", ip_addr>>
    ELSE <<"sudo", "ifconfig", iface, ip_addr, "netmask", "255.0.0.0", "up">>

\* what the add command does to the host when it takes effect
IfconfigAdd(h, iface, ip_addr) == h \cup {<<iface, ip_addr>>}

\* what the remove command does to the host: darwin drops the alias from
\* lo0 whatever iface is, linux takes the whole alias interface down
IfconfigRm(plat, h, iface, ip_addr) ==
    IF plat = "darwin"
    THEN h \ {<<<<"l", "o", "0">>, ip_addr>>}
    ELSE {b \in h : b[1] # iface}

----------------------------------------------------------------------------
(* Interface discovery *)

_loopback_interfaces(h) == {b[1] : b \in {c \in h : StartsWith(c[1], <<"l", "o">>)}}

_loopbacks(h) == {b \in h : b[1] \in _loopback_interfaces(h)}

----------------------------------------------------------------------------
(* Addresses and the hosts_cfg property *)

_mkaddr_off(prefix, node_num) == prefix \o Str(node_num)

_mkaddr(prefix, node_num) == prefix \o Str(node_num + 1)

RECURSIVE HostList(_, _, _)
\* the list built by the loop of hosts_cfg, from index x on
HostList(prefix, n, x) ==
    IF x >= n THEN <<>> ELSE <<_mkaddr(prefix, x)>> \o HostList(prefix, n, x + 1)

hosts_cfg(prefix, n) == Join(HostList(prefix, n, 0), <<",", " ">>)

\* the binding node x needs
Binding(x) == <<_mkiface(platform, x), _mkaddr(ip_prefix, x)>>

----------------------------------------------------------------------------
(* The process table of the host.  psutil reports for each process its    *)
(* name and, unless access is denied, its command line.                   *)

Pids == 1..5

ProcName ==
    <<"java", "java", "java", "jsvc", "java">>

ProcReadable == <<TRUE, TRUE, TRUE, TRUE, FALSE>>

NodeCmdline == <<<<"j", "a", "v", "a">>, <<"-", "D", "c", "a", "s", "s", "a", "n", "d", "r", "a", ".", "c", "o", "n", "f", "i", "g", "=", "/", "c", "c", "m", "/", "t", "1", "/", "n", "o", "d", "e", "1">>, DaemonClass>>

ProcCmdline ==
    << NodeCmdline,
       <<<<"j", "a", "v", "a">>, <<"-", "D", "c", "a", "s", "s", "a", "n", "d", "r", "a", ".", "c", "o", "n", "f", "i", "g", "=", "/", "c", "c", "m", "/", "o", "t", "h", "e", "r", "/", "n", "o", "d", "e", "1">>, DaemonClass>>,
       <<<<"j", "a", "v", "a">>, <<"-", "j", "a", "r">>, <<"t", "1", ".", "j", "a", "r">>>>,
       NodeCmdline,
       NodeCmdline >>

\* the processes that run the daemon class: a node of cluster t1 and a node
\* of another cluster
DaemonPids == {1, 2}

\* the session names handed to setup
Names == {<<"t", "1">>}

Elems(s) == {s[i] : i \in 1..Len(s)}

_cmdline_matches_any(nm, cmdline) == DaemonClass \in Elems(cmdline)

_cmdline_matches(nm, cmdline) ==
    /\ DaemonClass \in Elems(cmdline)
    /\ \E i \in 1..Len(cmdline) : Contains(cmdline[i], nm)

\* the command line _cassandra_processes hands to _cmdline_matches
CmdlineOf(p) ==
    IF ProcName[p] = "java" /\ ProcReadable[p] THEN ProcCmdline[p] ELSE <<>>

\* for each name the controller can hold, the pids that match it
Matching ==
    [nm \in Names \cup {<<>>} |-> {p \in Pids : _cmdline_matches(nm, CmdlineOf(p))}]

_cassandra_processes(nm, ps) == {p \in ps : p \in Matching[nm]}

----------------------------------------------------------------------------
(* A run of a handler: the host, the process table and the initialized    *)
(* flag as the handler leaves them, the commands and scans it performed,  *)
(* and how it ends: "ok" (still running / returns), "raise" (an exception *)
(* propagates), "exit" (pytest.exit(code)).                               *)

Emit(r, e) == [r EXCEPT !.ev = Append(@, e)]
Raise(r) == [r EXCEPT !.out = "raise"]
PytestExit(r, c) == [r EXCEPT !.out = "exit", !.code = c]

Run0(ev) ==
    [host |-> host, procs |-> procs, init |-> initialized, ev |-> ev,
     out |-> "ok", code |-> 0]

RECURSIVE MissingCmds(_, _)
\* the list 'missing' of _check_loopbacks, from index x on
MissingCmds(seen, x) ==
    IF x >= nodes THEN <<>>
    ELSE IF Binding(x) \notin seen
         THEN <<_add_ip_cmd(platform, _mkiface(platform, x), _mkaddr(ip_prefix, x))>>
              \o MissingCmds(seen, x + 1)
         ELSE MissingCmds(seen, x + 1)

CheckEvent(seen) ==
    [op |-> "check", seen |-> seen, missing |-> MissingCmds(seen, 0)]

\* the end of _check_loopbacks, with the list 'missing' built
Remediation_lax(r, e) == Emit(r, e)

Remediation(r, e) == IF e.missing # <<>> THEN PytestExit(Emit(r, e), 1) ELSE Emit(r, e)

_check_loopbacks(r) == Remediation(r, CheckEvent(_loopbacks(r.host)))

\* results of one alias command: it takes effect, it exits 0 without the
\* binding showing up, it exits nonzero
AddResults == {"ok", "silent", "fail"}

AddEvent(x, res) == [op |-> "add", node |-> x, rc |-> IF res = "fail" THEN 1 ELSE 0]

\* _add_ip_addr with result res, for node x
_add_ip_addr(r, x, res) ==
    IF res = "fail" THEN Raise(Emit(r, AddEvent(x, res)))
    ELSE IF res = "ok"
    THEN [Emit(r, AddEvent(x, res)) EXCEPT
            !.host = IfconfigAdd(@, _mkiface(platform, x), _mkaddr(ip_prefix, x))]
    ELSE Emit(r, AddEvent(x, res))

RECURSIVE AddMissing(_, _, _, _)
\* the first loop of _setup_loopbacks, from index x on; seen is the list read
\* before the loop, f[x] the result of the alias command for node x
AddMissing(r, seen, f, x) ==
    IF x >= nodes \/ r.out # "ok" THEN r
    ELSE IF Binding(x) \in seen THEN AddMissing(r, seen, f, x + 1)
    ELSE AddMissing(_add_ip_addr(r, x, f[x]), seen, f, x + 1)

Recheck_skip(r, seen) == Emit(r, [op |-> "recheck", seen |-> seen])

\* the second pass of _setup_loopbacks over the list read again: it raises
\* when a binding is missing (NameError at 'missing.append(a)')
Recheck(r, seen) ==
    IF \E x \in 0..(nodes - 1) : Binding(x) \notin seen
    THEN Raise(Emit(r, [op |-> "recheck", seen |-> seen]))
    ELSE Emit(r, [op |-> "recheck", seen |-> seen])

SecondPass(r) == IF r.out # "ok" THEN r ELSE Recheck(r, _loopbacks(r.host))

_setup_loopbacks(r, f) == SecondPass(AddMissing(r, _loopbacks(r.host), f, 0))

\* _rm_ip_addr for node x; fails says that the command exits nonzero
_rm_ip_addr(r, x, fails) ==
    IF fails THEN Raise(Emit(r, [op |-> "rm", node |-> x, rc |-> 1]))
    ELSE [Emit(r, [op |-> "rm", node |-> x, rc |-> 0]) EXCEPT
            !.host = IfconfigRm(platform, @, _mkiface(platform, x),
                                _mkaddr(ip_prefix, x))]

RECURSIVE RmLoop(_, _, _, _)
\* the loop of _teardown_loopbacks over range(n), from index x on; the
\* command for node k fails (k = n: none fails)
RmLoop(r, n, k, x) ==
    IF x >= n \/ r.out # "ok" THEN r
    ELSE RmLoop(_rm_ip_addr(r, x, x = k), n, k, x + 1)

\* called without argument: nodes defaults to NUM_NODES
_teardown_loopbacks(r, k) == RmLoop(r, NUM_NODES, k, 0)

\* p.kill() for every process of found
Kill(r, found) == [Emit(r, [op |-> "kill", pids |-> found]) EXCEPT !.procs = @ \ found]

_kill_all(r, nm) == Kill(r, _cassandra_processes(nm, r.procs))

\* 'len(list(self._cassandra_processes())) != 0', then _kill_all
KillIfFound(r, nm, found) ==
    IF found # {}
    THEN _kill_all(Emit(r, [op |-> "scan", procs |-> r.procs, found |-> found]), nm)
    ELSE Emit(r, [op |-> "scan", procs |-> r.procs, found |-> found])

\* the second half of _check_state
KillStage(r, nm) ==
    IF r.out # "ok" \/ ~killall THEN r
    ELSE KillIfFound(r, nm, _cassandra_processes(nm, r.procs))

_check_state(r, nm, f) ==
    KillStage(IF manage_interfaces THEN _setup_loopbacks(r, f)
              ELSE _check_loopbacks(r), nm)

\* results of the 'ccm create' subprocess: it exits with rc, or waiting for
\* it raises an exception (late: raised by wait, after communicate returned)
CreateResults ==
    [kind : {"exit"}, rc : 0..MaxExit, late : {FALSE}]
        \cup [kind : {"exc"}, rc : {0}, late : BOOLEAN]

\* stands for the result when the subprocess is never started
NoResult == [kind |-> "exit", rc |-> 0, late |-> FALSE]

CreateEvent(nm, res) == [op |-> "create", name |-> nm, res |-> res]

_create_cluster_one(r, nm, res) ==
    IF nm = <<>> THEN Raise(r)
    ELSE IF res.kind = "exc" THEN Raise(Emit(r, CreateEvent(nm, res)))
    ELSE IF res.rc # 0 THEN PytestExit(Emit(r, CreateEvent(nm, res)), 1)
    ELSE Emit(r, CreateEvent(nm, res))

\* An exception while waiting: with Python 3 the name e is unbound after the
\* except clause and 'if e' raises; with Python 2 e is set, and either
\* stdout is still None (communicate raised: AttributeError) or ret is 0
\* (wait raised: pytest.exit(0)).  Both interpreters are allowed for.
_create_cluster(r, nm, res) ==
    IF nm = <<>> THEN Raise(r)
    ELSE IF res.kind = "exc"
    THEN IF res.late THEN PytestExit(Emit(r, CreateEvent(nm, res)), 0)
         ELSE Raise(Emit(r, CreateEvent(nm, res)))
    ELSE IF res.rc # 0 THEN PytestExit(Emit(r, CreateEvent(nm, res)), res.rc)
    ELSE Emit(r, CreateEvent(nm, res))

_remove_cluster_lax(r, nm, rc) == Emit(r, [op |-> "remove", name |-> nm, rc |-> rc])

\* _remove_cluster up to its polling loop
_remove_cluster(r, nm, rc) ==
    IF rc # 0 THEN Raise(Emit(r, [op |-> "remove", name |-> nm, rc |-> rc]))
    ELSE Emit(r, [op |-> "remove", name |-> nm, rc |-> rc])

----------------------------------------------------------------------------
(* The controller: CCMCluster.setup and CCMCluster.teardown *)

NoArg == <<"-">>

\* 'if args: self.name = args[0]'
NameFor(arg) == IF arg = NoArg THEN name ELSE arg

\* 'if self.initialized: return True'
SetupGuard(flag) == flag

SetupFinally_onok(r) == [r EXCEPT !.init = (@ \/ r.out = "ok")]

\* 'finally: self.initialized = True' around _create_cluster
SetupFinally(r) == [r EXCEPT !.init = TRUE]

\* the try statement of setup, entered when _check_state returned
CreateStage(r, nm, res) ==
    IF r.out # "ok" THEN r ELSE SetupFinally(_create_cluster(r, nm, res))

SetupRun(nm, f, res) == CreateStage(_check_state(Run0(<<>>), nm, f), nm, res)

TeardownMark_reset(r) == [r EXCEPT !.init = FALSE]

\* 'self.initialized = True' in the finally clause of teardown
TeardownMark(r) == [r EXCEPT !.init = TRUE]

\* an exception pending while the finally clause runs propagates when the
\* clause ends normally, and is replaced when the clause raises or exits
Pending(r, out) == IF r.out # "ok" THEN r ELSE [r EXCEPT !.out = out]

\* the finally clause of teardown
TeardownFinally(r, nm, f) ==
    Pending(_check_state(TeardownMark([r EXCEPT !.out = "ok"]), nm, f), r.out)

\* teardown up to the polling loop; when the remove command fails the
\* finally clause runs and the call ends
AfterRemove(r, nm, f) == IF r.out = "ok" THEN r ELSE TeardownFinally(r, nm, f)

TeardownBegin(nm, rc, f) == AfterRemove(_remove_cluster(Run0(<<>>), nm, rc), nm, f)

\* teardown from the end of the polling loop on
AliasStage(r, k) == IF manage_interfaces THEN _teardown_loopbacks(r, k) ELSE r

\* the scan of the polling loop that ends it
LastPoll(r, nm) == Emit(r, [op |-> "poll", found |-> _cassandra_processes(nm, r.procs)])

TeardownEnd(nm, k, f) ==
    TeardownFinally(AliasStage(LastPoll(Run0(call.ev), nm), k), nm, f)

Creates(ev) == Cardinality({i \in 1..Len(ev) : ev[i].op = "create"})

Noop(op) ==
    [op |-> op, noop |-> TRUE, ev |-> <<>>, out |-> "return", code |-> 0,
     after |-> torn]

\* the call ended: its run becomes the state
Finished(op, r) ==
    /\ pc' = "idle"
    /\ initialized' = r.init
    /\ host' = r.host
    /\ procs' = r.procs
    /\ creates' = creates + Creates(r.ev)
    /\ torn' = (torn \/ (op = "teardown" /\ r.out = "ok"))
    /\ call' = [op |-> op, noop |-> FALSE, ev |-> r.ev,
                out |-> IF r.out = "ok" THEN "return" ELSE r.out,
                code |-> r.code, after |-> torn]

\* teardown waits in the polling loop of _remove_cluster
Polling(r) ==
    /\ pc' = "polling"
    /\ call' = [op |-> "teardown", noop |-> FALSE, ev |-> r.ev, out |-> "running",
                code |-> 0, after |-> torn]
    /\ UNCHANGED <<initialized, host, procs, creates, torn>>

PollOrFinish(r) == IF r.out = "ok" THEN Polling(r) ELSE Finished("teardown", r)

----------------------------------------------------------------------------
(* Inputs: the results of the external commands *)

Fixes == [0..(nodes - 1) -> AddResults]

AllOk == [x \in 0..(nodes - 1) |-> "ok"]

\* f is read only for the nodes whose alias command runs on host h: it is
\* fixed to "ok" for the others, so that each behaviour of the commands is
\* drawn once
Drawn(h, f) ==
    \A x \in 0..(nodes - 1) :
        (\/ ~manage_interfaces
         \/ Binding(x) \in _loopbacks(h)
         \/ \E y \in 0..(x - 1) : Binding(y) \notin _loopbacks(h) /\ f[y] = "fail")
            => f[x] = "ok"

SetupFixes == {f \in Fixes : Drawn(host, f)}

SetupResults(arg, f) ==
    IF _check_state(Run0(<<>>), NameFor(arg), f).out = "ok"
    THEN CreateResults ELSE {NoResult}

\* the state check of teardown runs at once when the remove command fails,
\* and else after the aliases were removed
StartFixes(rc) == IF rc = 0 THEN {AllOk} ELSE {f \in Fixes : Drawn(host, f)}

\* exit codes of 'ccm remove': the code only tests 'ret != 0'
RemoveCodes == {0, 1}

\* the node whose alias-remove command fails (NUM_NODES: none fails)
RmFailures == IF manage_interfaces THEN 0..NUM_NODES ELSE {NUM_NODES}

FinishFixes(k) == {f \in Fixes : Drawn(AliasStage(Run0(<<>>), k).host, f)}

----------------------------------------------------------------------------
(* The controller as the module builds it (initialized false, no name),   *)
(* for every configuration within the bounds, on a host with any subset   *)
(* of the node bindings (and the first node's address on an interface     *)
(* that is no loopback).  The process table is explored in two families:  *)
(* any set of the daemon processes with every node count, and any set of  *)
(* all five processes with a single node.                                 *)

Init ==
    /\ initialized = FALSE
    /\ name = <<>>
    /\ \/ nodes \in 1..MaxNodes /\ procs \in SUBSET DaemonPids
       \/ nodes = 1 /\ procs \in SUBSET Pids
    /\ manage_interfaces \in BOOLEAN
    /\ killall \in {CCM_KILLALL, TRUE}
    /\ ip_prefix = IP_PREFIX
    /\ platform \in Platforms
    /\ \E s \in SUBSET {Binding(x) : x \in 0..(nodes - 1)} :
          host = s \cup {<<<<"e", "t", "h", "0">>, _mkaddr(ip_prefix, 0)>>}
    /\ pc = "idle"
    /\ creates = 0
    /\ torn = FALSE
    /\ call = Noop("none")
    /\ hosts = <<>>

Config == <<nodes, manage_interfaces, killall, ip_prefix, platform, hosts>>

SetupNoop ==
    /\ pc = "idle"
    /\ SetupGuard(initialized)
    /\ call' = Noop("setup")
    /\ UNCHANGED <<initialized, name, host, procs, pc, creates, torn, Config>>

Setup(arg, f, res) ==
    /\ pc = "idle"
    /\ ~SetupGuard(initialized)
    /\ name' = NameFor(arg)
    /\ Finished("setup", SetupRun(NameFor(arg), f, res))
    /\ UNCHANGED Config

TeardownNoop ==
    /\ pc = "idle"
    /\ ~initialized
    /\ call' = Noop("teardown")
    /\ UNCHANGED <<initialized, name, host, procs, pc, creates, torn, Config>>

TeardownStart(rc, f) ==
    /\ pc = "idle"
    /\ initialized
    /\ PollOrFinish(TeardownBegin(name, rc, f))
    /\ UNCHANGED <<name, Config>>

\* the polling loop ends when a scan finds no matching process
TeardownFinish(k, f) ==
    /\ pc = "polling"
    /\ _cassandra_processes(name, procs) = {}
    /\ Finished("teardown", TeardownEnd(name, k, f))
    /\ UNCHANGED <<name, Config>>

\* the environment: while teardown polls, a process of the cluster ends
ProcExit(p) ==
    /\ pc = "polling"
    /\ p \in _cassandra_processes(name, procs)
    /\ procs' = procs \ {p}
    /\ UNCHANGED <<initialized, name, host, pc, call, creates, torn, Config>>

Next ==
    \/ SetupNoop
    \/ \E arg \in Names \cup {NoArg} : \E f \in SetupFixes :
          \E res \in SetupResults(arg, f) : Setup(arg, f, res)
    \/ TeardownNoop
    \/ \E rc \in RemoveCodes : \E f \in StartFixes(rc) : TeardownStart(rc, f)
    \/ \E k \in RmFailures : \E f \in FinishFixes(k) : TeardownFinish(k, f)
    \/ \E p \in Pids : ProcExit(p)

Spec == Init /\ [][Next]_vars

----------------------------------------------------------------------------
(* The hosts_cfg property on its own: the inputs are the node count and   *)
(* the address prefix, the only operation reads the property.             *)

Prefixes == {IP_PREFIX, <<"1", "0", ".", "0", ".", "0", ".">>, <<"1", "9", "2", ".", "1", "6", "8", ".", "1", ".">>, <<"1", "2", "7", ".", "0", ".", "5", ".", "1">>, <<>>}

InitHosts ==
    /\ initialized = FALSE
    /\ name = <<>>
    /\ nodes \in 1..MaxHostNodes
    /\ manage_interfaces = FALSE
    /\ killall = CCM_KILLALL
    /\ ip_prefix \in Prefixes
    /\ platform \in Platforms
    /\ host = {}
    /\ procs = {}
    /\ pc = "idle"
    /\ creates = 0
    /\ torn = FALSE
    /\ call = Noop("none")
    /\ hosts = <<>>

ReadHosts ==
    /\ hosts' = hosts_cfg(ip_prefix, nodes)
    /\ UNCHANGED <<initialized, name, nodes, manage_interfaces, killall, ip_prefix,
                   platform, host, procs, pc, call, creates, torn>>

NextHosts == ReadHosts

SpecHosts == InitHosts /\ [][NextHosts]_vars

----------------------------------------------------------------------------
(* Properties *)

Ev == call.ev
At == 1..Len(call.ev)
Did(op) == \E i \in At : Ev[i].op = op
Ended == pc = "idle" /\ ~call.noop /\ call.op \in {"setup", "teardown"}
AllBound(seen) == \A x \in 0..(nodes - 1) : Binding(x) \in seen
MissingNodes(seen) == {x \in 0..(nodes - 1) : Binding(x) \notin seen}

\* the state check of the call ended the call
CheckFailed ==
    \E i \in At :
        \/ Ev[i].op = "check" /\ Ev[i].missing # <<>>
        \/ Ev[i].op = "add" /\ Ev[i].rc # 0
        \/ Ev[i].op = "recheck" /\ ~AllBound(Ev[i].seen)

\* C1: over any sequence of setup and teardown calls 'ccm create' runs at
\* most once, and a teardown that ran leaves the initialized flag set.
C1_CreateAtMostOnce ==
    /\ creates <= 1
    /\ (Ended /\ call.op = "teardown") => initialized

C1_Witness ==
    creates = 1 /\ torn /\ call.op = "setup" /\ call.noop /\ call.ev = <<>>

\* C2 as stated: after a setup call has ended, however it ended, the
\* initialized flag is true.
C2_FlagSetWhateverOutcome == (pc = "idle" /\ call.op = "setup") => initialized

\* C2 amended: a setup call on an uninitialized controller whose state check
\* returned leaves the flag true whatever the outcome of creation; one that
\* the state check ended leaves the flag false.
C2_FlagSetOnceCheckReturned ==
    (Ended /\ call.op = "setup") =>
        /\ ~CheckFailed => initialized
        /\ CheckFailed => (~initialized /\ call.out # "return")

C2_Witness ==
    /\ Ended /\ call.op = "setup" /\ ~CheckFailed
    /\ call.out = "exit" /\ Did("create") /\ initialized

\* C3: in a setup call 'ccm create' runs only after the state check read a
\* list of bindings that holds the binding of every node, and a check that
\* reads a list with a binding missing ends the call without creation.
C3_CreateOnlyWhenBound ==
    (call.op = "setup" /\ ~call.noop) =>
        /\ \A i \in At : Ev[i].op = "create" =>
              \E j \in 1..(i - 1) : /\ Ev[j].op \in {"check", "recheck"}
                                    /\ AllBound(Ev[j].seen)
        /\ \A j \in At : (Ev[j].op \in {"check", "recheck"} /\ ~AllBound(Ev[j].seen)) =>
              (~Did("create") /\ call.out # "return")
        /\ Did("create") => AllBound(_loopbacks(host))

C3_Witness ==
    /\ call.op = "setup" /\ Did("create") /\ manage_interfaces
    /\ \E i \in At : Ev[i].op = "add" /\ Ev[i].rc = 0

C5_RepeatedTeardownIsNoop == (call.op = "teardown" /\ call.after) => call.ev = <<>>

\* C6: in a teardown call an alias-remove command runs only after 'ccm
\* remove' exited with 0 and after a scan of the polling loop found no
\* matching process; when 'ccm remove' exits nonzero the call does not
\* return normally (it raises when manage_interfaces is set), does not poll
\* and removes no alias.
C6_CleanBeforeRelease ==
    call.op = "teardown" =>
        /\ \A i \in At : Ev[i].op = "rm" =>
              \E j \in 1..(i - 1), k \in 1..(i - 1) :
                  /\ j < k
                  /\ Ev[j].op = "remove" /\ Ev[j].rc = 0
                  /\ Ev[k].op = "poll" /\ Ev[k].found = {}
        /\ \A j \in At : (Ev[j].op = "remove" /\ Ev[j].rc # 0) =>
              /\ call.out \in {"raise", "exit"}
              /\ manage_interfaces => call.out = "raise"
              /\ ~Did("poll") /\ ~Did("rm")

C6_Witness ==
    /\ call.op = "teardown" /\ manage_interfaces /\ Did("rm")
    /\ \E i \in At : Ev[i].op = "remove" /\ Ev[i].rc = 0

\* C7: _check_loopbacks aborts the run (pytest.exit(1)) exactly when a
\* binding of a node is missing; the remediation list then holds the add
\* command of each missing node once, in node order, and nothing else; the
\* check adds no alias.
C7_CheckLoopbacks ==
    \A i \in At : Ev[i].op = "check" =>
        /\ ~manage_interfaces
        /\ (i = Len(Ev) /\ call.out = "exit" /\ call.code = 1)
              <=> (MissingNodes(Ev[i].seen) # {})
        /\ Len(Ev[i].missing) = Cardinality(MissingNodes(Ev[i].seen))
        /\ \A x \in 0..(nodes - 1) :
              Cardinality({n \in 1..Len(Ev[i].missing) :
                  Ev[i].missing[n] =
                      _add_ip_cmd(platform, _mkiface(platform, x), _mkaddr(ip_prefix, x))})
                = IF x \in MissingNodes(Ev[i].seen) THEN 1 ELSE 0
        /\ ~Did("add")
        /\ _loopbacks(host) = Ev[i].seen

C7_Witness ==
    /\ nodes = MaxNodes
    /\ \E i \in At : /\ Ev[i].op = "check"
                     /\ Len(Ev[i].missing) = MaxNodes - 1
                     /\ call.out = "exit"

\* the positions at which sep occurs in s
Occurrences(s, sep) ==
    {i \in 1..(Len(s) - Len(sep) + 1) : SubSeq(s, i, i + Len(sep) - 1) = sep}

First(S) == CHOOSE i \in S : \A j \in S : i <= j

RECURSIVE Split(_, _)
\* the pieces of s between the occurrences of a non-empty sep: the
\* addresses a reader of the joined value gets back
Split(s, sep) ==
    IF Occurrences(s, sep) = {} THEN <<s>>
    ELSE <<SubSeq(s, 1, First(Occurrences(s, sep)) - 1)>>
         \o Split(SubSeq(s, First(Occurrences(s, sep)) + Len(sep), Len(s)), sep)

ClaimedMatch(nm, p) ==
    /\ ProcReadable[p]
    /\ DaemonClass \in Elems(ProcCmdline[p])
    /\ \E i \in 1..Len(ProcCmdline[p]) : Contains(ProcCmdline[p][i], nm)

\* a kill happens only right after a scan of a state check with killall
\* set, and the scan that finds a process of M kills exactly M
KillsExactly(M(_)) ==
    /\ \A i \in At : Ev[i].op = "kill" =>
          /\ killall
          /\ i > 1 /\ Ev[i - 1].op = "scan"
    /\ \A i \in At : (Ev[i].op = "scan" /\ M(Ev[i].procs) # {}) =>
          /\ i < Len(Ev) /\ Ev[i + 1].op = "kill"
          /\ Ev[i + 1].pids = M(Ev[i].procs)
    /\ \A i \in At : (Ev[i].op = "scan" /\ pc = "idle") =>
          procs = Ev[i].procs \ M(Ev[i].procs)

ClaimedMatching(ps) == {p \in ps : ClaimedMatch(name, p)}

JavaMatching(ps) == {p \in ps : ProcName[p] = "java" /\ ClaimedMatch(name, p)}

C10_AliasesReleased ==
    (Ended /\ call.op = "teardown" /\ manage_interfaces /\ call.out = "return") =>
        \A x \in 0..(nodes - 1) : Binding(x) \notin host

====
